---------------------------- MODULE Spec2Model ----------------------------
(***************************************************************************)
(* Model of stream_vdif_frames.py: the VDIF header encoder, the 2-bit      *)
(* sample packer and the pacing loop generate_and_send_frames.             *)
(*                                                                         *)
(* Time is counted in sample periods (1 / SAMPLE_RATE seconds), so that    *)
(* FRAME_DURATION = SAMPLES_PER_FRAME / SAMPLE_RATE seconds is the integer *)
(* SAMPLES_PER_FRAME.  A run's duration_seconds is an exact rational       *)
(* num / den; binary floating point rounding is not modelled.              *)
(***************************************************************************)
EXTENDS Integers, Sequences, FiniteSets, TLC

VARIABLES
    SAMPLE_RATE,        \* module constant, line 13 (samples per second)
    SAMPLES_PER_FRAME,  \* module constant, line 14
    pc,                 \* position of the main thread
    duration_seconds,   \* argument of generate_and_send_frames: [num, den]
    epoch_start,        \* line 86
    num_frames,         \* line 87
    frame_num,          \* loop variable, line 93
    epoch_seconds,      \* line 94
    quantized_signal,   \* line 101
    payload,            \* line 104
    frame_in_second,    \* line 107
    header,             \* line 108
    vdif_frame,         \* line 111
    wire,               \* datagrams sock.sendto has delivered, in order
    clock,              \* time since the call, in sample periods
    sleep_until,        \* time at which the last time.sleep was due to end
    stop_signal,        \* an external request to stop (no code reads it)
    fn_in,              \* argument of a function applied on its own
    fn_out              \* its result

cfgvars == <<SAMPLE_RATE, SAMPLES_PER_FRAME>>
runvars == <<pc, duration_seconds, epoch_start, num_frames, frame_num,
             epoch_seconds, quantized_signal, payload, frame_in_second,
             header, vdif_frame, wire, clock, sleep_until>>
fnvars == <<fn_in, fn_out>>
vars == <<cfgvars, runvars, stop_signal, fnvars>>

---------------------------------------------------------------------------
(* Bounds of the model.                                                    *)

\* Largest numerator of duration_seconds.
MaxDurNum == 3
\* Runs are explored up to this many frames.
MaxFrames == 3
\* Largest delay (sample periods) from the end of a sleep to the next tick.
MaxLate == 1
\* Sample sequences handed to generate_payload on its own: up to this length.
MaxSamples == 5

---------------------------------------------------------------------------
(* Python integer operators on naturals.                                   *)

RECURSIVE Pow2(_)
Pow2(n) == IF n = 0 THEN 1 ELSE 2 * Pow2(n - 1)

\* a << n
Shl(a, n) == IF a = 0 THEN 0 ELSE a * Pow2(n)

RECURSIVE BitAnd(_, _)
\* a & b
BitAnd(a, b) ==
    IF a = 0 \/ b = 0 THEN 0
    ELSE (IF a % 2 = 1 /\ b % 2 = 1 THEN 1 ELSE 0)
         + 2 * BitAnd(a \div 2, b \div 2)

RECURSIVE BitOr(_, _)
\* a | b
BitOr(a, b) ==
    IF a = 0 THEN b
    ELSE IF b = 0 THEN a
    ELSE (IF a % 2 = 1 \/ b % 2 = 1 THEN 1 ELSE 0)
         + 2 * BitOr(a \div 2, b \div 2)

RECURSIVE Log2(_)
\* int(np.log2(n)) for n >= 1
Log2(n) == IF n <= 1 THEN 0 ELSE 1 + Log2(n \div 2)

---------------------------------------------------------------------------
(* Configuration, lines 7-26.                                              *)

BITS_PER_SAMPLE == 2
CHANNELS == 1
THREAD_ID == 0
\* 'AA' as the code points ord() returns
STATION_ID == <<65, 65>>
VDIF_VERSION == 1

\* The values SAMPLE_RATE and SAMPLES_PER_FRAME are given to run the loop:
\* scaled-down ones, among them frame lengths that are not a multiple of
\* 8 bytes and a rate that is no multiple of the frame size.
RunConfigs ==
    { [rate |-> 64, spf |-> 32],
      [rate |-> 80, spf |-> 32],
      [rate |-> 18, spf |-> 6] }

\* The repository's own values, lines 13-14.
ShippedConfig == {[rate |-> 64000000, spf |-> 20000]}

Configs == ShippedConfig \cup RunConfigs

\* FRAME_DURATION = SAMPLES_PER_FRAME / SAMPLE_RATE seconds, in sample periods
FRAME_DURATION == SAMPLES_PER_FRAME

\* int(SAMPLE_RATE / SAMPLES_PER_FRAME)
FRAMES_PER_SECOND == SAMPLE_RATE \div SAMPLES_PER_FRAME

PAYLOAD_SIZE == (SAMPLES_PER_FRAME * BITS_PER_SAMPLE + 7) \div 8


---------------------------------------------------------------------------
(* datetime.utcfromtimestamp, line 33: the proleptic Gregorian date of a   *)
(* count of seconds since 1 Jan 1970 00:00 UTC, computed as CPython's      *)
(* datetime does (ordinal of the day, then _ord2ymd).                      *)

DAYS_BEFORE_MONTH == <<0, 31, 59, 90, 120, 151, 181, 212, 243, 273, 304, 334>>

\* [year, month] of the day with proleptic ordinal ord (1 Jan of year 1 is 1)
ord2ym(ord) ==
    LET n0 == ord - 1
        n400 == n0 \div 146097
        r400 == n0 % 146097
        n100 == r400 \div 36524
        r100 == r400 % 36524
        n4 == r100 \div 1461
        r4 == r100 % 1461
        n1 == r4 \div 365
        n == r4 % 365
        year == n400 * 400 + 1 + n100 * 100 + n4 * 4 + n1
        leapyear == n1 = 3 /\ (n4 # 24 \/ n100 = 3)
        month == (n + 50) \div 32
        preceding == DAYS_BEFORE_MONTH[month]
                     + (IF month > 2 /\ leapyear THEN 1 ELSE 0)
    IN  IF n1 = 4 \/ n100 = 4 THEN [year |-> year - 1, month |-> 12]
        ELSE IF preceding > n THEN [year |-> year, month |-> month - 1]
        ELSE [year |-> year, month |-> month]

utcfromtimestamp(t) == ord2ym(719163 + (t \div 86400))

\* June counted with the second half of the year
reference_epoch_JuneInSecondHalf(secs) ==
    LET epoch == utcfromtimestamp(secs)
        half == IF epoch.month < 6 THEN 0 ELSE 1
    IN  (epoch.year - 2000) * 2 + half

\* lines 32-35
reference_epoch_from_seconds(secs) ==
    LET epoch == utcfromtimestamp(secs)
        half == IF epoch.month <= 6 THEN 0 ELSE 1
    IN  (epoch.year - 2000) * 2 + half

---------------------------------------------------------------------------
(* create_vdif_header, lines 37-61.                                        *)

\* the four bytes of w, most significant first
PackBE32(w) ==
    << (w \div 16777216) % 256, (w \div 65536) % 256, (w \div 256) % 256, w % 256 >>

\* struct.pack_into('<I', ...): the four bytes of w, least significant first
PackLE32(w) ==
    << w % 256, (w \div 256) % 256, (w \div 65536) % 256, (w \div 16777216) % 256 >>

\* line 42; 0x3FFFFFFF = 1073741823
Word0(epoch) == BitAnd(epoch, 1073741823)

\* lines 46-47; 0x3F = 63, 0x00FFFFFF = 16777215
Word1(epoch, frame_number) ==
    BitOr(Shl(BitAnd(reference_epoch_from_seconds(epoch), 63), 24),
          BitAnd(frame_number, 16777215))

\* line 51, with len(header) = 32
frame_length_units == (32 + PAYLOAD_SIZE) \div 8

\* line 52
Word2 ==
    BitOr(BitOr(Shl(BitAnd(VDIF_VERSION, 7), 29),
                Shl(BitAnd(Log2(CHANNELS), 31), 24)),
          BitAnd(frame_length_units, 16777215))

\* lines 56-57
Word3 ==
    LET station == BitOr(Shl(STATION_ID[1], 8), STATION_ID[2])
    IN  BitOr(BitOr(BitOr(Shl(0, 31),
                          Shl(BitAnd(BITS_PER_SAMPLE - 1, 31), 26)),
                    Shl(BitAnd(THREAD_ID, 1023), 16)),
              BitAnd(station, 65535))

create_vdif_header(epoch, frame_number) ==
    PackLE32(Word0(epoch)) \o PackLE32(Word1(epoch, frame_number))
    \o PackLE32(Word2) \o PackLE32(Word3)
    \o [i \in 1..16 |-> 0]

---------------------------------------------------------------------------
(* quantize_signal, lines 63-67.  A signal is a sequence of integer        *)
(* amplitude levels; the thresholds are kept multiplied by 4, the          *)
(* denominator of the interpolation weights of the three quartiles.        *)

\* the a-th smallest value of signal (a counted from 0), by counting
SortedAt(signal, a) ==
    LET n == Len(signal)
        vals == {signal[i] : i \in 1..n}
        below == [v \in vals |-> Cardinality({i \in 1..n : signal[i] < v})]
        upto == [v \in vals |-> Cardinality({i \in 1..n : signal[i] <= v})]
    IN  CHOOSE v \in vals : below[v] <= a /\ a < upto[v]

\* 4 * np.percentile(signal, 25 * k), linear interpolation between the two
\* nearest ranks
Percentile4(signal, k) ==
    LET n == Len(signal)
        pos4 == k * (n - 1)
        lo == pos4 \div 4
        hi == IF lo + 1 < n THEN lo + 1 ELSE lo
        f == pos4 % 4
    IN  SortedAt(signal, lo) * (4 - f) + SortedAt(signal, hi) * f

\* np.digitize(signal, thresholds, right=True): the number of thresholds
\* strictly below the sample
quantize_signal(signal) ==
    LET t1 == Percentile4(signal, 1)
        t2 == Percentile4(signal, 2)
        t3 == Percentile4(signal, 3)
    IN  [i \in 1..Len(signal) |->
            (IF t1 < 4 * signal[i] THEN 1 ELSE 0)
          + (IF t2 < 4 * signal[i] THEN 1 ELSE 0)
          + (IF t3 < 4 * signal[i] THEN 1 ELSE 0)]

---------------------------------------------------------------------------
(* generate_payload, lines 69-81.                                          *)

\* the codes packed least significant bits first
RECURSIVE PackGroupLSB(_, _, _, _)
PackGroupLSB(samples, i, bit_pos, byte) ==
    IF bit_pos = 4 THEN byte
    ELSE LET val == IF i + bit_pos < Len(samples)
                    THEN BitAnd(samples[i + bit_pos + 1], 3)
                    ELSE 0
         IN  PackGroupLSB(samples, i, bit_pos + 1,
                          BitOr(byte, Shl(val, 2 * bit_pos)))

RECURSIVE PackGroup(_, _, _, _)
\* lines 73-79: the loop over bit_pos, for the group starting at index i
PackGroup(samples, i, bit_pos, byte) ==
    IF bit_pos = 4 THEN byte
    ELSE LET val == IF i + bit_pos < Len(samples)
                    THEN BitAnd(samples[i + bit_pos + 1], 3)
                    ELSE 0
         IN  PackGroup(samples, i, bit_pos + 1,
                       BitOr(byte, Shl(val, 6 - 2 * bit_pos)))

\* a short final group is dropped
generate_payload_DropTail(samples) ==
    [k \in 1..(Len(samples) \div 4) |-> PackGroup(samples, 4 * (k - 1), 0, 0)]

\* one byte per i in range(0, len(samples), 4)
generate_payload(samples) ==
    [k \in 1..((Len(samples) + 3) \div 4) |-> PackGroup(samples, 4 * (k - 1), 0, 0)]

\* s[:n]
SliceTo(s, n) == SubSeq(s, 1, IF n < Len(s) THEN n ELSE Len(s))

---------------------------------------------------------------------------
(* generate_and_send_frames, lines 83-117.                                 *)

\* duration_seconds = num / den seconds
Durations == {[num |-> n, den |-> d] : n \in 0..MaxDurNum, d \in {1, 2, 4}}

\* int(time.time()): 4 Nov 2026 06:00:00 UTC
EpochStarts == {1793772000}

\* the amplitude levels (line 98) of one period of a synthesized signal
Waveforms == {<<0>>, <<0, 1>>, <<0, 1, 2, 3>>}

\* the signals of one frame: SAMPLES_PER_FRAME levels, a waveform repeated
Signals ==
    {[i \in 1..SAMPLES_PER_FRAME |-> w[((i - 1) % Len(w)) + 1]] : w \in Waveforms}

\* line 87: int(duration_seconds * FRAMES_PER_SECOND)
NumFrames(d) == (d.num * FRAMES_PER_SECOND) \div d.den

InitConfig(configs) ==
    \E c \in configs : SAMPLE_RATE = c.rate /\ SAMPLES_PER_FRAME = c.spf

InitRun ==
    /\ duration_seconds = [num |-> 0, den |-> 1]
    /\ epoch_start = 0
    /\ num_frames = 0
    /\ frame_num = 0
    /\ epoch_seconds = 0
    /\ quantized_signal = <<>>
    /\ payload = <<>>
    /\ frame_in_second = 0
    /\ header = <<>>
    /\ vdif_frame = <<>>
    /\ wire = <<>>
    /\ clock = 0
    /\ sleep_until = 0
    /\ stop_signal = FALSE

Init ==
    /\ InitConfig(RunConfigs)
    /\ InitRun
    /\ pc = "idle"
    /\ fn_in = <<>>
    /\ fn_out = <<>>

\* lines 85-91: the call, up to the loop
Call(d, t) ==
    /\ pc = "idle"
    /\ NumFrames(d) <= MaxFrames
    /\ duration_seconds' = d
    /\ epoch_start' = t
    /\ num_frames' = NumFrames(d)
    /\ frame_num' = 0
    /\ pc' = "loop"
    /\ UNCHANGED <<epoch_seconds, quantized_signal, payload, frame_in_second,
                   header, vdif_frame, wire, clock, sleep_until>>
    /\ UNCHANGED <<cfgvars, stop_signal, fnvars>>

\* line 94
EpochSecondsOf(n) == epoch_start + n \div FRAMES_PER_SECOND

\* the frame counter itself, never reset
FrameInSecondOf_NoReset(n) == n

\* line 107
FrameInSecondOf(n) == n % FRAMES_PER_SECOND

\* lines 93-111: one more frame is due; it is synthesized and encoded
BuildFrame(signal) ==
    /\ pc = "loop"
    /\ frame_num < num_frames
    /\ epoch_seconds' = EpochSecondsOf(frame_num)
    /\ quantized_signal' = quantize_signal(signal)
    /\ payload' = SliceTo(generate_payload(quantized_signal'), PAYLOAD_SIZE)
    /\ frame_in_second' = FrameInSecondOf(frame_num)
    /\ header' = create_vdif_header(epoch_seconds', frame_in_second')
    /\ vdif_frame' = header' \o payload'
    /\ pc' = "send"
    /\ UNCHANGED <<duration_seconds, epoch_start, num_frames, frame_num, wire,
                   clock, sleep_until>>
    /\ UNCHANGED <<cfgvars, stop_signal, fnvars>>

\* line 93: range(num_frames) is exhausted and the function returns
LoopExit ==
    /\ pc = "loop"
    /\ frame_num >= num_frames
    /\ pc' = "done"
    /\ UNCHANGED <<duration_seconds, epoch_start, num_frames, frame_num,
                   epoch_seconds, quantized_signal, payload, frame_in_second,
                   header, vdif_frame, wire, clock, sleep_until>>
    /\ UNCHANGED <<cfgvars, stop_signal, fnvars>>

\* line 114: sock.sendto returns; a receiver sees the header and the length
SendOk ==
    /\ pc = "send"
    /\ wire' = Append(wire, [header |-> SubSeq(vdif_frame, 1, 32),
                             length |-> Len(vdif_frame)])
    /\ pc' = "sleep"
    /\ UNCHANGED <<duration_seconds, epoch_start, num_frames, frame_num,
                   epoch_seconds, quantized_signal, payload, frame_in_second,
                   header, vdif_frame, clock, sleep_until>>
    /\ UNCHANGED <<cfgvars, stop_signal, fnvars>>

\* line 114: sock.sendto raises OSError; nothing catches it, so it leaves
\* generate_and_send_frames
SendFail ==
    /\ pc = "send"
    /\ pc' = "raised"
    /\ UNCHANGED <<duration_seconds, epoch_start, num_frames, frame_num,
                   epoch_seconds, quantized_signal, payload, frame_in_second,
                   header, vdif_frame, wire, clock, sleep_until>>
    /\ UNCHANGED <<cfgvars, stop_signal, fnvars>>

\* line 117: time.sleep(FRAME_DURATION) is due to end FRAME_DURATION after
\* the call; the loop has its next index over sample periods later (the
\* sleep returning late, and the time the loop's own work takes)
Sleep(over) ==
    /\ pc = "sleep"
    /\ sleep_until' = clock + FRAME_DURATION
    /\ clock' = sleep_until' + over
    /\ frame_num' = frame_num + 1
    /\ pc' = "loop"
    /\ UNCHANGED <<duration_seconds, epoch_start, num_frames, epoch_seconds,
                   quantized_signal, payload, frame_in_second, header,
                   vdif_frame, wire>>
    /\ UNCHANGED <<cfgvars, stop_signal, fnvars>>

Next ==
    \/ \E d \in Durations, t \in EpochStarts : Call(d, t)
    \/ \E signal \in Signals : BuildFrame(signal)
    \/ LoopExit
    \/ SendOk
    \/ SendFail
    \/ \E over \in 0..MaxLate : Sleep(over)

Spec == Init /\ [][Next]_vars

---------------------------------------------------------------------------
(* The functions applied on their own: the argument is drawn in the        *)
(* initial state, and one step applies the function.                       *)

\* create_vdif_header's arguments: seconds from 1 Jan 2000 to 19 Jan 2038,
\* around 2^30, the half-year changes of 2026 and the year 2032 among them,
\* and frame numbers up to 2^24 - 1
HeaderInputs ==
    {[epoch |-> e, frame_number |-> f] :
        e \in {946684800, 1073741823, 1073741824, 1782863999, 1782864000,
               1793772000, 1956527999, 1956528000, 2147483647},
        f \in {0, 1, 255, 256, 3199, 65535, 65536, 16777215}}

RECURSIVE SeqsUpTo(_, _)
\* the sequences over S of length at most n
SeqsUpTo(S, n) ==
    IF n = 0 THEN {<<>>}
    ELSE LET shorter == SeqsUpTo(S, n - 1)
         IN  shorter \cup {Append(q, x) : q \in {r \in shorter : Len(r) = n - 1},
                                          x \in S}

\* generate_payload's arguments: the outputs of quantize_signal are codes 0..3
PayloadInputs == SeqsUpTo(0..3, MaxSamples)

\* reference_epoch_from_seconds' arguments: the first and the last second of
\* every day from 1 Jan 1970 to 18 Jan 2038
EpochInputs == {d * 86400 + o : d \in 0..24854, o \in {0, 86399}}

InitFn(inputs) ==
    /\ InitRun
    /\ pc = "call"
    /\ fn_in \in inputs
    /\ fn_out = <<>>

Return(result) ==
    /\ pc = "call"
    /\ fn_out' = result
    /\ pc' = "returned"
    /\ UNCHANGED <<fn_in, cfgvars, stop_signal>>
    /\ UNCHANGED <<duration_seconds, epoch_start, num_frames, frame_num,
                   epoch_seconds, quantized_signal, payload, frame_in_second,
                   header, vdif_frame, wire, clock, sleep_until>>

ApplyHeader == Return(create_vdif_header(fn_in.epoch, fn_in.frame_number))

\* the configurations whose frame length is a multiple of 8 bytes
HeaderConfigs == {c \in Configs : (32 + (c.spf * BITS_PER_SAMPLE + 7) \div 8) % 8 = 0}

InitHeader == InitConfig(HeaderConfigs) /\ InitFn(HeaderInputs)

SpecHeader == InitHeader /\ [][ApplyHeader]_vars

ApplyPayload == Return(generate_payload(fn_in))

InitPayload == InitConfig(ShippedConfig) /\ InitFn(PayloadInputs)

SpecPayload == InitPayload /\ [][ApplyPayload]_vars

ApplyEpoch == Return(reference_epoch_from_seconds(fn_in))

InitEpoch == InitConfig(ShippedConfig) /\ InitFn(EpochInputs)

SpecEpoch == InitEpoch /\ [][ApplyEpoch]_vars

---------------------------------------------------------------------------
(* An external stop request, raised while a run is under way.  Nothing in  *)
(* generate_and_send_frames reads it.                                      *)

RaiseStop ==
    /\ pc \in {"loop", "send", "sleep"}
    /\ ~stop_signal
    /\ stop_signal' = TRUE
    /\ UNCHANGED <<cfgvars, runvars, fnvars>>

NextStop == Next \/ RaiseStop

SpecStop == Init /\ [][NextStop]_vars

---------------------------------------------------------------------------
(* Reading a header as a receiver does.                                    *)

\* word k (0..7) of header h: four bytes, least significant first
LE32(h, k) ==
    h[4 * k + 1] + 256 * h[4 * k + 2] + 65536 * h[4 * k + 3]
    + 16777216 * h[4 * k + 4]

\* the width bits of word w from bit lo upwards
Field(w, lo, width) == (w \div Pow2(lo)) % Pow2(width)

HdrSeconds(h) == Field(LE32(h, 0), 0, 30)
HdrFrameNumber(h) == Field(LE32(h, 1), 0, 24)
HdrFrameLength(h) == Field(LE32(h, 2), 0, 24)

\* Python's round(a / b) for a >= 0, b > 0: to the nearest, halves to even
RoundDiv(a, b) ==
    LET q == a \div b
        r == a % b
    IN  IF 2 * r < b THEN q
        ELSE IF 2 * r > b THEN q + 1
        ELSE IF q % 2 = 0 THEN q ELSE q + 1

\* the least k with k * b >= a
CeilDiv(a, b) == CHOOSE k \in 0..a : k * b >= a /\ (k = 0 \/ (k - 1) * b < a)

---------------------------------------------------------------------------
(* Claims about the pacing loop.                                           *)

\* C1: a run of duration T that has returned has transmitted exactly
\* round(T / frameDurationSec) frames, T / frameDurationSec being
\* num * SAMPLE_RATE / (den * SAMPLES_PER_FRAME).
C1_FramesSentIsRoundedDuration ==
    pc = "done" =>
        Len(wire) = RoundDiv(duration_seconds.num * SAMPLE_RATE,
                             duration_seconds.den * SAMPLES_PER_FRAME)

C3_DatagramLength ==
    /\ pc \in {"send", "sleep"} =>
        /\ Len(header) = 32
        /\ Len(generate_payload(quantized_signal))
              = CeilDiv(SAMPLES_PER_FRAME * BITS_PER_SAMPLE, 8)
        /\ payload = generate_payload(quantized_signal)
        /\ Len(vdif_frame) = 32 + PAYLOAD_SIZE
        /\ vdif_frame = header \o payload
    /\ \A i \in 1..Len(wire) : wire[i].length = 32 + PAYLOAD_SIZE

\* C3 witness: a datagram is out whose last payload byte holds a partial
\* group of samples.
C3_Witness ==
    /\ Len(wire) >= 1
    /\ SAMPLES_PER_FRAME % 4 # 0
    /\ wire[1].length = 34

\* C5: no frame is sent under a configuration whose frame length
\* 32 + PAYLOAD_SIZE is not a multiple of 8, and the length field of every
\* header sent, times 8, is the datagram's length.
C5_LengthFieldExactOrRejected ==
    \A i \in 1..Len(wire) :
        /\ (32 + PAYLOAD_SIZE) % 8 = 0
        /\ HdrFrameLength(wire[i].header) * 8 = wire[i].length

\* C6: the sleep after tick i is due to end at the absolute deadline
\* start_time + (i + 1) * FRAME_DURATION (start_time is clock 0), whatever
\* the lateness of earlier ticks.
C6_AbsoluteDeadlines ==
    frame_num >= 1 => sleep_until = frame_num * FRAME_DURATION

\* C7: a send that fails in tick i does not end the run while ticks
\* i + 1 .. num_frames - 1 remain to be encoded and transmitted.
C7_SendFailureDoesNotHalt ==
    pc = "raised" => frame_num + 1 >= num_frames

\* C8: once the stop signal is up, the loop starts no further frame: a
\* driver between ticks with the signal raised does not go on to send.
C8_StopBeforeNextTransmit ==
    [][(stop_signal /\ pc = "loop") => pc' # "send"]_vars

---------------------------------------------------------------------------
(* The civil calendar, counted forwards from 1 Jan 1970.                   *)

IsLeapYear(y) == y % 4 = 0 /\ (y % 100 # 0 \/ y % 400 = 0)

\* the leap years before year y
LeapYearsBefore(y) == (y - 1) \div 4 - (y - 1) \div 100 + (y - 1) \div 400

\* the days from 1 Jan 1970 to 1 Jan of year y
DayOfJanFirst(y) == 365 * (y - 1970) + LeapYearsBefore(y) - LeapYearsBefore(1970)

\* the days from 1 Jan 1970 to 1 Jul of year y
DayOfJulFirst(y) == DayOfJanFirst(y) + 181 + (IF IsLeapYear(y) THEN 1 ELSE 0)

\* the UTC year of second s
YearOf(s) ==
    CHOOSE y \in 1970..2038 :
        DayOfJanFirst(y) <= s \div 86400 /\ s \div 86400 < DayOfJanFirst(y + 1)

\* (UTC year - 2000) * 2 + (0 if UTC month <= 6 else 1)
HalfYearIndex(s) ==
    (YearOf(s) - 2000) * 2
    + (IF s \div 86400 < DayOfJulFirst(YearOf(s)) THEN 0 ELSE 1)

\* s is 1 Jan 00:00:00 or 1 Jul 00:00:00 UTC of some year
IsHalfYearStart(s) ==
    /\ s % 86400 = 0
    /\ s \div 86400 \in {DayOfJanFirst(YearOf(s)), DayOfJulFirst(YearOf(s))}

---------------------------------------------------------------------------
(* Claims about the encoders.                                              *)

\* the top n bits (n <= 8) of word k of header h
TopBits(h, k, n) == h[4 * k + 4] \div Pow2(8 - n)

\* words 0, 2, 3 and 4 to 7 of header h, encoded for second e, as C4 states
\* them
HeaderWordsOtherThan1(h, e) ==
    /\ Len(h) = 32
    /\ \A i \in 1..32 : h[i] \in 0..255
    /\ TopBits(h, 0, 2) = 0
    /\ Field(LE32(h, 0), 0, 30) = e % Pow2(30)
    /\ TopBits(h, 2, 3) = VDIF_VERSION
    /\ Pow2(Field(LE32(h, 2), 24, 5)) = CHANNELS
    /\ Field(LE32(h, 2), 0, 24) * 8 = 32 + PAYLOAD_SIZE
    /\ SAMPLES_PER_FRAME = 20000 => Field(LE32(h, 2), 0, 24) = 629
    /\ TopBits(h, 3, 1) = 0
    /\ Field(LE32(h, 3), 26, 5) = BITS_PER_SAMPLE - 1
    /\ Field(LE32(h, 3), 16, 10) = THREAD_ID
    /\ Field(LE32(h, 3), 8, 8) = STATION_ID[1]
    /\ Field(LE32(h, 3), 0, 8) = STATION_ID[2]
    /\ h[13] = 65 /\ h[14] = 65
    /\ \A i \in 17..32 : h[i] = 0

UnpackByte(b) == <<(b \div 64) % 4, (b \div 16) % 4, (b \div 4) % 4, b % 4>>

\* the codes of a byte sequence, 4 per byte
Unpack(bytes) == [j \in 1..(4 * Len(bytes)) |->
                    UnpackByte(bytes[((j - 1) \div 4) + 1])[((j - 1) % 4) + 1]]

\* C9: unpacking generate_payload's bytes, 4 codes per byte most significant
\* bits first, gives the original codes, followed only by zero codes in the
\* unused slots of the last byte; for a length that is a multiple of 4 it
\* gives the original sequence.
C9_UnpackRoundTrip ==
    pc = "returned" =>
        LET codes == Unpack(fn_out)
        IN  /\ SubSeq(codes, 1, Len(fn_in)) = fn_in
            /\ Len(codes) >= Len(fn_in)
            /\ Len(codes) - Len(fn_in) < 4
            /\ \A j \in (Len(fn_in) + 1)..Len(codes) : codes[j] = 0
            /\ Len(fn_in) % 4 = 0 => codes = fn_in

\* C9 witness: five codes packed into two bytes, the second holding one code.
C9_Witness ==
    /\ pc = "returned"
    /\ fn_in = <<3, 2, 1, 0, 3>>
    /\ fn_out = <<228, 192>>

\* C10: reference_epoch_from_seconds is (UTC year - 2000) * 2 + (0 if UTC
\* month <= 6 else 1); from one second to the next it grows by 1 when the
\* next second is 1 Jan or 1 Jul 00:00:00 UTC and stays the same otherwise,
\* so it never decreases.
C10_HalfYearSteps ==
    pc = "returned" =>
        /\ fn_out = HalfYearIndex(fn_in)
        /\ reference_epoch_from_seconds(fn_in + 1) - fn_out
              = (IF IsHalfYearStart(fn_in + 1) THEN 1 ELSE 0)
        /\ fn_out <= reference_epoch_from_seconds(fn_in + 1)

\* C10 witness: the last second of 30 Jun 2026, whose successor is 1 Jul.
C10_Witness ==
    /\ pc = "returned"
    /\ fn_in = 1782863999
    /\ fn_out = 52
    /\ reference_epoch_from_seconds(fn_in + 1) = 53

===========================================================================
